---- MODULE Spec2Model ----
(***************************************************************************)
(* The scheduler service of CodeClarity: a cron job fires every minute,    *)
(* selects the scheduled analyses that are due, and for each of them       *)
(* creates a new execution through the API, publishes a message to        *)
(* RabbitMQ and writes the next run time back to the analysis table.       *)
(*                                                                         *)
(* Time is counted in hours.  A nullable column or pointer to a string or  *)
(* to a time.Time is the empty sequence when nil and <<v>> otherwise.      *)
(***************************************************************************)
EXTENDS Integers, Sequences, FiniteSets, TLC

\* ------------------------------------------------------------------ bounds

\* how many things the environment does in a run: the wall clock moving
\* forward, or the management surface (frontend / API) editing a row
MaxEnv == 1
\* how many executions the API creates in a run
MaxExec == 2
\* how many times the cron entry fires in a run
MaxTicks == 2
\* largest `from` handed to calculateNextRun when it is called on its own
MaxFrom == 30

\* ------------------------------------------------------------------ data

Hour == 1

\* rows of the analysis table the model follows
ItemIds == {"A", "B"}

\* goroutines the cron library can have running processDueAnalyses at once:
\* every firing starts a new goroutine, an earlier one is not waited for
Slots == {1, 2}

Nil == << >>
Some(v) == <<v>>
Val(o) == o[1]

\* schedule_type values: the two the service knows, and one it does not
KnownTypes == {"daily", "weekly"}
ScheduleTypes == {Nil, Some("daily"), Some("weekly"), Some("monthly")}

\* how far the clock moves between two readings of time.Now()
ClockSteps == {1 * Hour, 7 * 24 * Hour}

\* a next_scheduled_run far enough ahead that no run of the model reaches it
FarAhead == 1000 * Hour

ProjectOf(i) == "proj-" \o i
OrgOf(i) == "org-" \o i
IntegrationOf(i) == IF i = "A" THEN Some("intg-A") ELSE Nil
ConfigOf(i) == [branch |-> "main", item |-> i]

\* type ScheduledAnalysis struct: the columns the service reads or writes
ScheduledAnalysis(id, active, stype, nextRun, lastRun) ==
    [ID |-> id, IsActive |-> active, ScheduleType |-> stype,
     NextScheduledRun |-> nextRun, LastScheduledRun |-> lastRun,
     ProjectID |-> ProjectOf(id), OrganizationID |-> OrgOf(id),
     IntegrationID |-> IntegrationOf(id), Config |-> ConfigOf(id)]

VARIABLES
    now,         \* what time.Now() returns
    store,       \* the analysis table: id -> row
    pc,          \* per goroutine: "idle", "create", "publish", "update"
    rest,        \* per goroutine: the rows of `analyses` not yet finished, current first
    newId,       \* per goroutine: newAnalysisId of the current processAnalysis
    executions,  \* per item: for each execution the API created, whether the service got its id
    published,   \* per item: the messages sent to the api_request queue, each with the due
                 \* time its row was selected with
    updates,     \* per item: store updates issued by processAnalysis
    ticks,       \* how many times the cron entry has fired
    envEvents,   \* how many times the clock has moved or a row was edited from outside
    calcIn,      \* arguments of the last direct call of calculateNextRun, << >> before any
    calcOut,     \* result of the last direct call of calculateNextRun
    scanErrors,  \* how many selects failed ("Error fetching due analyses" in the log)
    service,     \* the *SchedulerService main got from CreateSchedulerService
    err          \* the error main got from CreateSchedulerService

vars == <<now, store, pc, rest, newId, executions, published,
          updates, ticks, envEvents, calcIn, calcOut, scanErrors, service, err>>

\* ------------------------------------------------------------------ the store query

\* SQL comparisons are three-valued: a NULL operand gives NULL, and WHERE
\* keeps a row only when the whole condition is TRUE
SqlEqBool(a, b) == IF a = b THEN "TRUE" ELSE "FALSE"
SqlIn(o, S) == IF o = Nil THEN "NULL" ELSE IF Val(o) \in S THEN "TRUE" ELSE "FALSE"
SqlLe(o, v) == IF o = Nil THEN "NULL" ELSE IF Val(o) <= v THEN "TRUE" ELSE "FALSE"
SqlAnd(a, b) ==
    IF a = "FALSE" \/ b = "FALSE" THEN "FALSE"
    ELSE IF a = "NULL" \/ b = "NULL" THEN "NULL" ELSE "TRUE"

\* DueWhere with the comparison of next_scheduled_run the wrong way round
DueWhere_Flipped(row, at) ==
    SqlAnd(SqlEqBool(row.IsActive, TRUE),
           SqlAnd(SqlIn(row.ScheduleType, KnownTypes),
                  IF row.NextScheduledRun = Nil THEN "NULL"
                  ELSE IF Val(row.NextScheduledRun) >= at THEN "TRUE" ELSE "FALSE"))

\* DueWhere without the is_active condition
DueWhere_NoActive(row, at) ==
    SqlAnd(SqlIn(row.ScheduleType, KnownTypes), SqlLe(row.NextScheduledRun, at))

\* DueWhere without the schedule_type condition
DueWhere_NoType(row, at) ==
    SqlAnd(SqlEqBool(row.IsActive, TRUE), SqlLe(row.NextScheduledRun, at))

\* Where("is_active = ?", true).Where("schedule_type IN (?)", ...).Where("next_scheduled_run <= ?", time.Now())
DueWhere(row, at) ==
    SqlAnd(SqlEqBool(row.IsActive, TRUE),
           SqlAnd(SqlIn(row.ScheduleType, KnownTypes),
                  SqlLe(row.NextScheduledRun, at)))

\* the identifiers of the rows the select returns at time `at`
DueIds(db, at) == {i \in ItemIds : DueWhere(db[i], at) = "TRUE"}

\* the orders in which the select can return a set of rows (no ORDER BY)
Orders(S) == {s \in [1..Cardinality(S) -> S] : \A a, b \in 1..Cardinality(S) : s[a] = s[b] => a = b}

\* ------------------------------------------------------------------ pure functions

\* calculateNextRun that returns `from` itself
calculateNextRun_NoAdd(scheduleType, from) == from

\* calculateNextRun whose weekly case adds a day
calculateNextRun_WeeklyAsDaily(scheduleType, from) == from + 24 * Hour

\* calculateNextRun whose fallback for an unknown type adds nothing
calculateNextRun_NoFallback(scheduleType, from) ==
    IF scheduleType = Nil
    THEN from + 24 * Hour
    ELSE CASE Val(scheduleType) = "daily" -> from + 24 * Hour
           [] Val(scheduleType) = "weekly" -> from + 7 * 24 * Hour
           [] OTHER -> from

calculateNextRun(scheduleType, from) ==
    IF scheduleType = Nil
    THEN from + 24 * Hour
    ELSE CASE Val(scheduleType) = "daily" -> from + 24 * Hour
           [] Val(scheduleType) = "weekly" -> from + 7 * 24 * Hour
           [] OTHER -> from + 24 * Hour

\* the map of a sendAnalysisMessage that puts the id of the scheduled
\* analysis where the id of the new execution belongs
Message_UsesItemId(analysis, newAnalysisId) ==
    [analysis_id |-> analysis.ID,
     project_id |-> analysis.ProjectID,
     integration_id |-> analysis.IntegrationID,
     organization_id |-> analysis.OrganizationID,
     config |-> analysis.Config]

\* the map sendAnalysisMessage marshals and publishes
Message(analysis, newAnalysisId) ==
    [analysis_id |-> newAnalysisId,
     project_id |-> analysis.ProjectID,
     integration_id |-> analysis.IntegrationID,
     organization_id |-> analysis.OrganizationID,
     config |-> analysis.Config]

\* ------------------------------------------------------------------ initial state

\* boilerplates.CreateServiceBase(): a service base and no error, or no
\* base and an error
CreateServiceBase(baseOk) ==
    IF baseOk THEN <<Some("ServiceBase"), Nil>> ELSE <<Nil, Some("error")>>

\* CreateSchedulerService without the check of the error of CreateServiceBase
CreateSchedulerService_IgnoresError(baseOk) ==
    <<Some([ServiceBase |-> CreateServiceBase(baseOk)[1],
            cron |-> Some("cron"),
            apiURL |-> "http://api:3000"]),
      Nil>>

\* what CreateSchedulerService returns: the service and the error
CreateSchedulerService(baseOk) ==
    IF CreateServiceBase(baseOk)[2] # Nil
    THEN <<Nil, CreateServiceBase(baseOk)[2]>>
    ELSE <<Some([ServiceBase |-> CreateServiceBase(baseOk)[1],
                 cron |-> Some("cron"),
                 apiURL |-> "http://api:3000"]),
           Nil>>

\* main calls service.Start() only when CreateSchedulerService gave no error
Started == err = Nil

\* the rows of the table when the service starts: both analyses are active
\* and neither has run yet; the daily one is due now, the weekly one in a day
InitRow(i) ==
    IF i = "A"
    THEN ScheduledAnalysis(i, TRUE, Some("daily"), Some(0), Nil)
    ELSE ScheduledAnalysis(i, TRUE, Some("weekly"), Some(24 * Hour), Nil)

Init ==
    /\ now = 0
    /\ store = [i \in ItemIds |-> InitRow(i)]
    /\ pc = [t \in Slots |-> "idle"]
    /\ rest = [t \in Slots |-> << >>]
    /\ newId = [t \in Slots |-> ""]
    /\ executions = [i \in ItemIds |-> << >>]
    /\ published = [i \in ItemIds |-> << >>]
    /\ updates = [i \in ItemIds |-> 0]
    /\ ticks = 0
    /\ envEvents = 0
    /\ calcIn = << >>
    /\ calcOut = 0
    /\ scanErrors = 0
    /\ \E baseOk \in BOOLEAN :
          /\ service = CreateSchedulerService(baseOk)[1]
          /\ err = CreateSchedulerService(baseOk)[2]

\* ------------------------------------------------------------------ the cron job

Busy(t) == pc[t] # "idle"

\* a cron built to skip a firing while an earlier job is still running
FreeSlot_SkipIfStillRunning(t) == t = 1 /\ \A u \in Slots : ~Busy(u)

\* a firing of the cron entry runs in the lowest goroutine slot that is free
FreeSlot(t) == ~Busy(t) /\ \A u \in Slots : u < t => Busy(u)

\* the return of a processAnalysis whose failure ends the whole job
Return_EndsTheJob(t) ==
    /\ rest' = [rest EXCEPT ![t] = << >>]
    /\ pc' = [pc EXCEPT ![t] = "idle"]
    /\ newId' = [newId EXCEPT ![t] = ""]

\* processAnalysis returns: the range loop of processDueAnalyses moves to the
\* next row of `analyses`, or the job ends
Return(t) ==
    /\ rest' = [rest EXCEPT ![t] = Tail(rest[t])]
    /\ pc' = [pc EXCEPT ![t] = IF Tail(rest[t]) = << >> THEN "idle" ELSE "create"]
    /\ newId' = [newId EXCEPT ![t] = ""]

\* the select of a job that does not return on the error of Scan and goes on
\* with the rows read before the error
processDueAnalyses_NoReturnOnError(t, scanOk, order) ==
    /\ Started
    /\ FreeSlot(t)
    /\ ticks < MaxTicks
    /\ ticks' = ticks + 1
    /\ IF scanOk
       THEN order \in Orders(DueIds(store, now))
       ELSE \E S \in SUBSET DueIds(store, now) : order \in Orders(S)
    /\ rest' = [rest EXCEPT ![t] = [k \in 1..Len(order) |-> store[order[k]]]]
    /\ pc' = [pc EXCEPT ![t] = IF order = << >> THEN "idle" ELSE "create"]
    /\ scanErrors' = IF scanOk THEN scanErrors ELSE scanErrors + 1
    /\ UNCHANGED <<now, store, newId, executions, published, updates,
                   envEvents, calcIn, calcOut, service, err>>

\* the select of a job that leaves out the rows another running job is
\* processing
processDueAnalyses_SkipsInFlight(t, scanOk, order) ==
    /\ Started
    /\ FreeSlot(t)
    /\ ticks < MaxTicks
    /\ ticks' = ticks + 1
    /\ IF scanOk
       THEN /\ order \in Orders(DueIds(store, now)
                                 \ {Head(rest[u]).ID : u \in {v \in Slots : Busy(v)}})
            /\ rest' = [rest EXCEPT ![t] = [k \in 1..Len(order) |-> store[order[k]]]]
            /\ pc' = [pc EXCEPT ![t] = IF order = << >> THEN "idle" ELSE "create"]
       ELSE /\ order = << >>
            /\ UNCHANGED <<rest, pc>>
    /\ scanErrors' = IF scanOk THEN scanErrors ELSE scanErrors + 1
    /\ UNCHANGED <<now, store, newId, executions, published, updates,
                   envEvents, calcIn, calcOut, service, err>>

\* the select of processDueAnalyses; scanOk is whether Scan returned no error
processDueAnalyses(t, scanOk, order) ==
    /\ Started
    /\ FreeSlot(t)
    /\ ticks < MaxTicks
    /\ ticks' = ticks + 1
    /\ IF scanOk
       THEN /\ order \in Orders(DueIds(store, now))
            /\ rest' = [rest EXCEPT ![t] = [k \in 1..Len(order) |-> store[order[k]]]]
            /\ pc' = [pc EXCEPT ![t] = IF order = << >> THEN "idle" ELSE "create"]
       ELSE /\ order = << >>
            /\ UNCHANGED <<rest, pc>>
    /\ scanErrors' = IF scanOk THEN scanErrors ELSE scanErrors + 1
    /\ UNCHANGED <<now, store, newId, executions, published, updates,
                   envEvents, calcIn, calcOut, service, err>>

\* what http.Post and the decoding of its answer can give
Responses == {"transport_error", "status_other", "created_bad_body",
              "created_no_id", "created"}

\* the API answers 201 exactly when it has created the execution
ApiCreated(resp) == resp \in {"created_bad_body", "created_no_id", "created"}

\* createAnalysisExecution returns a nil error
CreateOk(resp) == resp \in {"created_no_id", "created"}

\* the identifier the API gives to the n-th execution of analysis i
ExecId(i, n) == "exec-" \o i \o "-" \o ToString(n)

\* result.ID after decoding the body
DecodedId(resp, i, n) == IF resp = "created" THEN ExecId(i, n) ELSE ""

\* how many executions the API has created so far
TotalExec == Len(executions["A"]) + Len(executions["B"])

\* createAnalysisExecution step of a processAnalysis that calls the API again
\* when the call fails
createAnalysisExecution_Retries(t, resp) ==
    /\ pc[t] = "create"
    /\ ApiCreated(resp) => TotalExec < MaxExec
    /\ executions' = IF ApiCreated(resp)
                     THEN [executions EXCEPT ![Head(rest[t]).ID] = Append(@, CreateOk(resp))]
                     ELSE executions
    /\ newId' = [newId EXCEPT ![t] =
                   DecodedId(resp, Head(rest[t]).ID, Len(executions[Head(rest[t]).ID]) + 1)]
    /\ pc' = [pc EXCEPT ![t] = IF CreateOk(resp) THEN "publish" ELSE "create"]
    /\ UNCHANGED <<rest, ticks, now, store, published, updates, envEvents,
                   calcIn, calcOut, scanErrors, service, err>>

\* createAnalysisExecution step of a processAnalysis that does not return on the error
createAnalysisExecution_IgnoresError(t, resp) ==
    /\ pc[t] = "create"
    /\ ApiCreated(resp) => TotalExec < MaxExec
    /\ executions' = IF ApiCreated(resp)
                     THEN [executions EXCEPT ![Head(rest[t]).ID] = Append(@, CreateOk(resp))]
                     ELSE executions
    /\ newId' = [newId EXCEPT ![t] =
                   DecodedId(resp, Head(rest[t]).ID, Len(executions[Head(rest[t]).ID]) + 1)]
    /\ pc' = [pc EXCEPT ![t] = "publish"]
    /\ UNCHANGED <<rest, ticks, now, store, published, updates, envEvents,
                   calcIn, calcOut, scanErrors, service, err>>

\* processAnalysis up to the return of createAnalysisExecution
createAnalysisExecution(t, resp) ==
    /\ pc[t] = "create"
    /\ ApiCreated(resp) => TotalExec < MaxExec
    /\ executions' = IF ApiCreated(resp)
                     THEN [executions EXCEPT ![Head(rest[t]).ID] = Append(@, CreateOk(resp))]
                     ELSE executions
    /\ IF CreateOk(resp)
       THEN /\ newId' = [newId EXCEPT ![t] =
                         DecodedId(resp, Head(rest[t]).ID, Len(executions[Head(rest[t]).ID]) + 1)]
            /\ pc' = [pc EXCEPT ![t] = "publish"]
            /\ UNCHANGED rest
       ELSE Return(t)
    /\ UNCHANGED <<ticks, now, store, published, updates, envEvents,
                   calcIn, calcOut, scanErrors, service, err>>

\* sendAnalysisMessage step of a job that, once the message is out, goes on
\* with the next row without waiting for the update of this one
sendAnalysisMessage_MovesOn(t, sendOk) ==
    /\ pc[t] = "publish"
    /\ published' = IF sendOk
                    THEN [published EXCEPT ![Head(rest[t]).ID] =
                            Append(@, [msg |-> Message(Head(rest[t]), newId[t]),
                                       due |-> Head(rest[t]).NextScheduledRun])]
                    ELSE published
    /\ Return(t)
    /\ UNCHANGED <<ticks, now, store, executions, updates, envEvents,
                   calcIn, calcOut, scanErrors, service, err>>

\* sendAnalysisMessage step of a processAnalysis that does not return on the error
sendAnalysisMessage_IgnoresError(t, sendOk) ==
    /\ pc[t] = "publish"
    /\ published' = IF sendOk
                    THEN [published EXCEPT ![Head(rest[t]).ID] =
                            Append(@, [msg |-> Message(Head(rest[t]), newId[t]),
                                       due |-> Head(rest[t]).NextScheduledRun])]
                    ELSE published
    /\ pc' = [pc EXCEPT ![t] = "update"]
    /\ UNCHANGED <<rest, newId, ticks, now, store, executions, updates, envEvents,
                   calcIn, calcOut, scanErrors, service, err>>

\* processAnalysis from the call of sendAnalysisMessage to its return
sendAnalysisMessage(t, sendOk) ==
    /\ pc[t] = "publish"
    /\ IF sendOk
       THEN /\ published' = [published EXCEPT ![Head(rest[t]).ID] =
                                Append(@, [msg |-> Message(Head(rest[t]), newId[t]),
                                           due |-> Head(rest[t]).NextScheduledRun])]
            /\ pc' = [pc EXCEPT ![t] = "update"]
            /\ UNCHANGED <<rest, newId>>
       ELSE /\ Return(t)
            /\ UNCHANGED published
    /\ UNCHANGED <<ticks, now, store, executions, updates, envEvents,
                   calcIn, calcOut, scanErrors, service, err>>

\* the row written by the update of processAnalysis
Rescheduled(row, at, nextRun) ==
    [row EXCEPT !.LastScheduledRun = Some(at), !.NextScheduledRun = Some(nextRun)]

\* the update of a processAnalysis that counts the next run from the next
\* run the row had, not from time.Now()
updateSchedule_FromPreviousNextRun(t, execOk) ==
    /\ pc[t] = "update"
    /\ LET analysis == Head(rest[t])
           nextRun == calculateNextRun(analysis.ScheduleType,
                                       Val(analysis.NextScheduledRun))
       IN  /\ store' = IF execOk
                       THEN [store EXCEPT ![analysis.ID] = Rescheduled(@, now, nextRun)]
                       ELSE store
           /\ updates' = [updates EXCEPT ![analysis.ID] = @ + 1]
    /\ Return(t)
    /\ UNCHANGED <<ticks, now, executions, published, envEvents,
                   calcIn, calcOut, scanErrors, service, err>>

\* the update of a processAnalysis whose UPDATE has no WHERE on the id
updateSchedule_NoWhere(t, execOk) ==
    /\ pc[t] = "update"
    /\ LET analysis == Head(rest[t])
           nextRun == calculateNextRun(analysis.ScheduleType, now)
       IN  /\ store' = IF execOk
                       THEN [i \in ItemIds |-> Rescheduled(store[i], now, nextRun)]
                       ELSE store
           /\ updates' = [updates EXCEPT ![analysis.ID] = @ + 1]
    /\ Return(t)
    /\ UNCHANGED <<ticks, now, executions, published, envEvents,
                   calcIn, calcOut, scanErrors, service, err>>

\* processAnalysis from time.Now() to its end; execOk is whether Exec returned no error
updateSchedule(t, execOk) ==
    /\ pc[t] = "update"
    /\ LET analysis == Head(rest[t])
           nextRun == calculateNextRun(analysis.ScheduleType, now)
       IN  /\ store' = IF execOk
                       THEN [store EXCEPT ![analysis.ID] = Rescheduled(@, now, nextRun)]
                       ELSE store
           /\ updates' = [updates EXCEPT ![analysis.ID] = @ + 1]
    /\ Return(t)
    /\ UNCHANGED <<ticks, now, executions, published, envEvents,
                   calcIn, calcOut, scanErrors, service, err>>

\* ------------------------------------------------------------------ the environment

\* the wall clock moves forward
AdvanceClock(d) ==
    /\ envEvents < MaxEnv
    /\ now' = now + d
    /\ envEvents' = envEvents + 1
    /\ UNCHANGED <<ticks, store, pc, rest, newId, executions, published,
                   updates, calcIn, calcOut, scanErrors, service, err>>

\* the rows one edit of the management surface can turn a row into: the
\* analysis is switched off or on, or its next run is put off
Edits(row, at) ==
    {[row EXCEPT !.IsActive = ~row.IsActive],
     [row EXCEPT !.NextScheduledRun = Some(at + FarAhead)]}

\* users edit scheduled analyses through the web interface
ExternalWrite(i, row) ==
    /\ envEvents < MaxEnv
    /\ row \in Edits(store[i], now)
    /\ store' = [store EXCEPT ![i] = row]
    /\ envEvents' = envEvents + 1
    /\ UNCHANGED <<ticks, now, pc, rest, newId, executions, published,
                   updates, calcIn, calcOut, scanErrors, service, err>>

\* ------------------------------------------------------------------ specification

AllOrders == UNION {Orders(S) : S \in SUBSET ItemIds}

Next ==
    \/ \E t \in Slots, scanOk \in BOOLEAN, order \in AllOrders :
          processDueAnalyses(t, scanOk, order)
    \/ \E t \in Slots, resp \in Responses : createAnalysisExecution(t, resp)
    \/ \E t \in Slots, sendOk \in BOOLEAN : sendAnalysisMessage(t, sendOk)
    \/ \E t \in Slots, execOk \in BOOLEAN : updateSchedule(t, execOk)
    \/ \E d \in ClockSteps : AdvanceClock(d)
    \/ \E i \in ItemIds, row \in UNION {Edits(store[j], now) : j \in ItemIds} :
          ExternalWrite(i, row)

Spec == Init /\ [][Next]_vars

\* ------------------------------------------------------------------ calculateNextRun on its own

CallCalculateNextRun(scheduleType, from) ==
    /\ calcIn' = <<scheduleType, from>>
    /\ calcOut' = calculateNextRun(scheduleType, from)
    /\ UNCHANGED <<ticks, now, store, pc, rest, newId, executions, published,
                   updates, envEvents, scanErrors, service, err>>

NextCalc == \E k \in ScheduleTypes, f \in 0..MaxFrom : CallCalculateNextRun(k, f)

SpecCalc == Init /\ [][NextCalc]_vars

\* ------------------------------------------------------------------ the select on any table

\* every row an analysis can be: on or off, any schedule type, no next run
\* or one at, just after or well after the start
AnyRows(i) ==
    {ScheduledAnalysis(i, a, k, n, Nil) :
        a \in BOOLEAN, k \in ScheduleTypes,
        n \in {Nil, Some(0), Some(1 * Hour), Some(2 * Hour)}}

InitQuery ==
    /\ now = 0
    /\ store \in {db \in [ItemIds -> UNION {AnyRows(i) : i \in ItemIds}] :
                    \A i \in ItemIds : db[i] \in AnyRows(i)}
    /\ pc = [t \in Slots |-> "idle"]
    /\ rest = [t \in Slots |-> << >>]
    /\ newId = [t \in Slots |-> ""]
    /\ executions = [i \in ItemIds |-> << >>]
    /\ published = [i \in ItemIds |-> << >>]
    /\ updates = [i \in ItemIds |-> 0]
    /\ ticks = 0
    /\ envEvents = 0
    /\ calcIn = << >>
    /\ calcOut = 0
    /\ scanErrors = 0
    /\ service = CreateSchedulerService(TRUE)[1]
    /\ err = CreateSchedulerService(TRUE)[2]

NextQuery ==
    \/ \E t \in Slots, scanOk \in BOOLEAN, order \in AllOrders :
          processDueAnalyses(t, scanOk, order)
    \/ \E d \in ClockSteps : AdvanceClock(d)

SpecQuery == InitQuery /\ [][NextQuery]_vars

\* ------------------------------------------------------------------ a call that never returns

\* http.Post is called on the default client, which has no timeout, and the
\* publish has none either: the call of a job may never return, and the job
\* then stays where it is, with the rows it has not processed yet
Hang(t) ==
    /\ pc[t] \in {"create", "publish"}
    /\ \A u \in Slots : pc[u] # "stuck"
    /\ pc' = [pc EXCEPT ![t] = "stuck"]
    /\ UNCHANGED <<now, store, rest, newId, executions, published, updates, ticks,
                   envEvents, calcIn, calcOut, scanErrors, service, err>>

\* the service is started a day after the two analyses were scheduled: both
\* are due
InitLive ==
    /\ now = 24 * Hour
    /\ store = [i \in ItemIds |-> InitRow(i)]
    /\ pc = [t \in Slots |-> "idle"]
    /\ rest = [t \in Slots |-> << >>]
    /\ newId = [t \in Slots |-> ""]
    /\ executions = [i \in ItemIds |-> << >>]
    /\ published = [i \in ItemIds |-> << >>]
    /\ updates = [i \in ItemIds |-> 0]
    /\ ticks = 0
    /\ envEvents = 0
    /\ calcIn = << >>
    /\ calcOut = 0
    /\ scanErrors = 0
    /\ service = CreateSchedulerService(TRUE)[1]
    /\ err = CreateSchedulerService(TRUE)[2]

NextLive ==
    \/ \E t \in Slots, scanOk \in BOOLEAN, order \in AllOrders :
          processDueAnalyses(t, scanOk, order)
    \/ \E t \in Slots, resp \in Responses : createAnalysisExecution(t, resp)
    \/ \E t \in Slots, sendOk \in BOOLEAN : sendAnalysisMessage(t, sendOk)
    \/ \E t \in Slots, execOk \in BOOLEAN : updateSchedule(t, execOk)
    \/ \E t \in Slots : Hang(t)

\* the cron fires its entry every minute, and every call other than the one
\* that hangs returns, with a result or with an error
FairLive ==
    /\ WF_vars(\E t \in Slots, scanOk \in BOOLEAN, order \in AllOrders :
                  processDueAnalyses(t, scanOk, order))
    /\ \A t \in Slots :
          /\ WF_vars(\E resp \in Responses : createAnalysisExecution(t, resp))
          /\ WF_vars(\E sendOk \in BOOLEAN : sendAnalysisMessage(t, sendOk))
          /\ WF_vars(\E execOk \in BOOLEAN : updateSchedule(t, execOk))

SpecLive == InitLive /\ [][NextLive]_vars /\ FairLive

\* ------------------------------------------------------------------ one job at a time, nothing fails

\* the service when every job ends before the next firing, every call
\* succeeds and nobody else writes the table; the clock moves
NextSeq ==
    \/ \E order \in AllOrders : processDueAnalyses(1, TRUE, order)
    \/ createAnalysisExecution(1, "created")
    \/ sendAnalysisMessage(1, TRUE)
    \/ updateSchedule(1, TRUE)
    \/ \E d \in ClockSteps : AdvanceClock(d)

\* the service is started when the daily analysis becomes due, or a day
\* later, when both are due
InitSeq ==
    /\ now \in {0, 24 * Hour}
    /\ store = [i \in ItemIds |-> InitRow(i)]
    /\ pc = [t \in Slots |-> "idle"]
    /\ rest = [t \in Slots |-> << >>]
    /\ newId = [t \in Slots |-> ""]
    /\ executions = [i \in ItemIds |-> << >>]
    /\ published = [i \in ItemIds |-> << >>]
    /\ updates = [i \in ItemIds |-> 0]
    /\ ticks = 0
    /\ envEvents = 0
    /\ calcIn = << >>
    /\ calcOut = 0
    /\ scanErrors = 0
    /\ service = CreateSchedulerService(TRUE)[1]
    /\ err = CreateSchedulerService(TRUE)[2]

SpecSeq == InitSeq /\ [][NextSeq]_vars

\* ------------------------------------------------------------------ every call succeeds in the end

\* the service was created and started
InitFair == Init /\ Started

\* a call may fail only while the cron entry has a firing left in which it is
\* made again: from the last firing on, the select, the creation call, the
\* publish and the update succeed
MayFail == ticks < MaxTicks

NextFair ==
    \/ \E t \in Slots, scanOk \in BOOLEAN, order \in AllOrders :
          /\ scanOk \/ ticks + 1 < MaxTicks
          /\ processDueAnalyses(t, scanOk, order)
    \/ \E t \in Slots, resp \in Responses :
          /\ CreateOk(resp) \/ MayFail
          /\ createAnalysisExecution(t, resp)
    \/ \E t \in Slots, sendOk \in BOOLEAN :
          /\ sendOk \/ MayFail
          /\ sendAnalysisMessage(t, sendOk)
    \/ \E t \in Slots, execOk \in BOOLEAN :
          /\ execOk \/ MayFail
          /\ updateSchedule(t, execOk)

\* the cron fires its entry every minute and every call returns; and a call
\* that can succeed does
FairSuccess ==
    /\ WF_vars(\E t \in Slots, scanOk \in BOOLEAN, order \in AllOrders :
                  (scanOk \/ ticks + 1 < MaxTicks) /\ processDueAnalyses(t, scanOk, order))
    /\ \A t \in Slots :
          /\ WF_vars(\E resp \in Responses :
                        (CreateOk(resp) \/ MayFail) /\ createAnalysisExecution(t, resp))
          /\ WF_vars(\E sendOk \in BOOLEAN :
                        (sendOk \/ MayFail) /\ sendAnalysisMessage(t, sendOk))
          /\ WF_vars(\E execOk \in BOOLEAN :
                        (execOk \/ MayFail) /\ updateSchedule(t, execOk))

SpecFair == InitFair /\ [][NextFair]_vars /\ FairSuccess

\* ------------------------------------------------------------------ the jobs on any table

\* the cron jobs alone, overlapping and with every outcome of every call
NextJobs ==
    \/ \E t \in Slots, scanOk \in BOOLEAN, order \in AllOrders :
          processDueAnalyses(t, scanOk, order)
    \/ \E t \in Slots, resp \in Responses : createAnalysisExecution(t, resp)
    \/ \E t \in Slots, sendOk \in BOOLEAN : sendAnalysisMessage(t, sendOk)
    \/ \E t \in Slots, execOk \in BOOLEAN : updateSchedule(t, execOk)

\* the service started on a table with rows of every kind
SpecAny == InitQuery /\ [][NextJobs]_vars

\* ------------------------------------------------------------------ properties

\* how many executions of analysis i the service got an identifier for
Returned(i) == Cardinality({k \in 1..Len(executions[i]) : executions[i][k]})

\* the slots that are at step `step` of processAnalysis for analysis i
InFlight(i, step) == {t \in Slots : pc[t] = step /\ Head(rest[t]).ID = i}

\* processAnalysis of slot t ends with this step
Ends(t) == rest'[t] = Tail(rest[t]) /\ pc'[t] \in {"idle", "create"}

\* the times a later select can run at, as far as the clock of the model goes
LaterTimes(at) == {at} \cup {at + d : d \in ClockSteps}

\* the eligibility rule of the data model, in two-valued logic
Eligible(db, at) ==
    {i \in ItemIds :
        /\ db[i].IsActive = TRUE
        /\ db[i].ScheduleType \in {Some("daily"), Some("weekly")}
        /\ db[i].NextScheduledRun # Nil
        /\ Val(db[i].NextScheduledRun) <= at}

\* C1: when the creation of the execution fails (transport error, a status
\* other than 201, a body that does not decode), that processAnalysis ends
\* there: no message is published and the table is not written.
C1_CreateFailureIsNoOp ==
    [][\A t \in Slots, resp \in Responses :
          (createAnalysisExecution(t, resp) /\ ~CreateOk(resp))
          => /\ published' = published
             /\ store' = store
             /\ updates' = updates
             /\ Ends(t)]_vars

\* a creation failed (the API had created the execution, the body did not
\* decode), nothing was published or written for the analysis, the job is over
C1_Witness ==
    /\ executions["A"] = <<FALSE>>
    /\ published["A"] = << >>
    /\ updates["A"] = 0
    /\ store["A"] = InitRow("A")
    /\ \A t \in Slots : pc[t] = "idle"

\* C2: when the execution was created and the publish fails, that
\* processAnalysis ends there without writing the table; a row that still is
\* what the select returned is still due.
C2_PublishFailureLeavesItemDue ==
    [][\A t \in Slots :
          sendAnalysisMessage(t, FALSE)
          => /\ store' = store
             /\ updates' = updates
             /\ published' = published
             /\ Ends(t)
             /\ store[Head(rest[t]).ID] = Head(rest[t])
                  => Head(rest[t]).ID \in DueIds(store', now')]_vars

\* an execution was created and returned, its message was never published,
\* the job is over and the analysis is still due
C2_Witness ==
    /\ executions["A"] = <<TRUE>>
    /\ published["A"] = << >>
    /\ updates["A"] = 0
    /\ \A t \in Slots : pc[t] = "idle"
    /\ "A" \in DueIds(store, now)

\* C3: when the update fails after creation and publish succeeded, the table
\* is unchanged, and a row that still is what the select returned is returned
\* again by the select of any later tick (which then creates and publishes
\* again: at least once, not exactly once).
C3_UpdateFailureKeepsItemSelectable ==
    [][\A t \in Slots :
          updateSchedule(t, FALSE)
          => /\ store' = store
             /\ published' = published
             /\ store[Head(rest[t]).ID] = Head(rest[t])
                  => \A q \in LaterTimes(now') : Head(rest[t]).ID \in DueIds(store', q)]_vars

\* an update was issued and failed (the row never got a last run), and a
\* later tick has published a second message for the same due time
C3_Witness ==
    /\ updates["A"] >= 1
    /\ store["A"] = InitRow("A")
    /\ Len(published["A"]) = 2
    /\ published["A"][1].due = published["A"][2].due
    /\ published["A"][1].msg.analysis_id = ExecId("A", 1)
    /\ published["A"][2].msg.analysis_id = ExecId("A", 2)

\* C4 as stated: for every analysis and every time it becomes due exactly one
\* message is published: never two messages for the same due time, and never
\* a reschedule without a message.
C4_ExactlyOneTriggerPerOccurrence ==
    \A i \in ItemIds :
        /\ \A j, k \in 1..Len(published[i]) :
              published[i][j].due = published[i][k].due => j = k
        /\ store[i].LastScheduledRun # Nil => published[i] # << >>

\* C4 as amended: no trigger is lost. Every update of the table is issued by
\* a processAnalysis that has published, for the due time it selected the row
\* with, a message carrying the execution id it got. (Duplicates can happen.)
C4_NoLostTrigger ==
    [][\A t \in Slots, execOk \in BOOLEAN :
          updateSchedule(t, execOk)
          => \E k \in 1..Len(published[Head(rest[t]).ID]) :
                /\ published[Head(rest[t]).ID][k].due = Head(rest[t]).NextScheduledRun
                /\ published[Head(rest[t]).ID][k].msg = Message(Head(rest[t]), newId[t])]_vars

\* an analysis was rescheduled after exactly one message
C4_Witness ==
    /\ store["A"].LastScheduledRun # Nil
    /\ Len(published["A"]) = 1
    /\ updates["A"] = 1

\* C5: the select returns a row if and only if it is active, its schedule
\* type is daily or weekly, and its next run is set and not after now; the
\* rows come back as they are in the table, each once.
C5_DiscoveryIffEligible ==
    [][\A t \in Slots, order \in AllOrders :
          processDueAnalyses(t, TRUE, order)
          => /\ {rest'[t][k].ID : k \in 1..Len(rest'[t])} = Eligible(store, now)
             /\ Len(rest'[t]) = Cardinality(Eligible(store, now))
             /\ \A k \in 1..Len(rest'[t]) : rest'[t][k] = store[rest'[t][k].ID]]_vars

\* a select has returned the due analysis A and left out B, which is due by
\* its date and type but switched off
C5_Witness ==
    \E t \in Slots :
        /\ pc[t] = "create"
        /\ Len(rest[t]) = 1
        /\ rest[t][1].ID = "A"
        /\ store["B"] = ScheduledAnalysis("B", FALSE, Some("daily"), Some(0), Nil)

\* the interval of a schedule type as the data model states it
IntervalOf(scheduleType) ==
    IF scheduleType = Some("weekly") THEN 168 * Hour ELSE 24 * Hour

\* C6 as stated: every update of the table strictly advances the stored next
\* run of its row, also when it is issued from a stale snapshot by an
\* overlapping tick or after the row was edited between select and update.
C6_UpdateStrictlyAdvancesStored ==
    [][\A t \in Slots :
          updateSchedule(t, TRUE)
          => \/ store[Head(rest[t]).ID].NextScheduledRun = Nil
             \/ Val(store'[Head(rest[t]).ID].NextScheduledRun)
                  > Val(store[Head(rest[t]).ID].NextScheduledRun)]_vars

\* C6 as amended: every update writes a next run strictly later than the next
\* run of the snapshot its row was selected with, so it strictly advances the
\* stored value whenever the row still holds that value.
C6_UpdateAdvancesPastSnapshot ==
    [][\A t \in Slots :
          updateSchedule(t, TRUE)
          => /\ Head(rest[t]).NextScheduledRun # Nil
             /\ Val(store'[Head(rest[t]).ID].NextScheduledRun)
                  > Val(Head(rest[t]).NextScheduledRun)
             /\ store[Head(rest[t]).ID].NextScheduledRun = Head(rest[t]).NextScheduledRun
                  => Val(store'[Head(rest[t]).ID].NextScheduledRun)
                       > Val(store[Head(rest[t]).ID].NextScheduledRun)]_vars

\* the daily analysis was rescheduled twice, the second time a week after
\* the first, and its next run moved from one day to eight days
C6_Witness ==
    /\ updates["A"] = 2
    /\ store["A"].LastScheduledRun = Some(7 * 24 * Hour)
    /\ store["A"].NextScheduledRun = Some(8 * 24 * Hour)

\* C7: a successful update leaves the row with last run = the time of the
\* update and next run = last run + 24h for a daily analysis, + 168h for a
\* weekly one and + 24h otherwise, the type being the one of the row handed
\* to processAnalysis.
C7_NextRunIsLastRunPlusInterval ==
    [][\A t \in Slots :
          updateSchedule(t, TRUE)
          => LET id == Head(rest[t]).ID
             IN  /\ store'[id].LastScheduledRun = Some(now)
                 /\ store'[id].NextScheduledRun =
                       Some(Val(store'[id].LastScheduledRun)
                            + IntervalOf(Head(rest[t]).ScheduleType))]_vars

\* the weekly analysis was processed when the clock stood at one week
C7_Witness ==
    /\ store["B"].LastScheduledRun = Some(7 * 24 * Hour)
    /\ store["B"].NextScheduledRun = Some(14 * 24 * Hour)
    /\ store["B"].ScheduleType = Some("weekly")

\* C8: calculateNextRun returns from + 24h for daily, from + 168h for weekly
\* and from + 24h for nil or any other type, always later than from.
C8_CalculateNextRun ==
    calcIn # << >>
    => /\ calcOut = calcIn[2] + (IF calcIn[1] = Some("weekly") THEN 168 * Hour ELSE 24 * Hour)
       /\ calcOut > calcIn[2]

\* calculateNextRun was called with a type it does not know
C8_Witness == calcIn = <<Some("monthly"), 7>> /\ calcOut = 31

\* C9: a successful update of an active daily analysis sets its next run to
\* the time of the update + 24h, and with the table as the update leaves it
\* no select from then until that next run returns the analysis.
C9_RescheduledItemNotDueBeforeNextRun ==
    [][\A t \in Slots :
          (updateSchedule(t, TRUE) /\ Head(rest[t]).ScheduleType = Some("daily"))
          => LET id == Head(rest[t]).ID
             IN  /\ store'[id].NextScheduledRun = Some(now + 24 * Hour)
                 /\ \A q \in now..(now + 24 * Hour - 1) : DueWhere(store'[id], q) # "TRUE"]_vars

\* the daily analysis was due, was processed at the start, and an hour
\* later a select does not return it
C9_Witness ==
    /\ now = 1 * Hour
    /\ store["A"] = ScheduledAnalysis("A", TRUE, Some("daily"), Some(24 * Hour), Some(0))
    /\ Len(published["A"]) = 1
    /\ "A" \notin DueIds(store, now)

\* C10: within one processAnalysis the order is create, publish, update: a
\* slot is at the publish step only with an execution created in this
\* invocation, at the update step only with its message published; so for
\* every analysis, updates issued <= messages published <= executions whose
\* id the service got, counting the invocations still in flight.
C10_CreateThenPublishThenUpdate ==
    /\ \A i \in ItemIds :
          /\ updates[i] + Cardinality(InFlight(i, "update")) <= Len(published[i])
          /\ Len(published[i]) + Cardinality(InFlight(i, "publish")) <= Returned(i)
    /\ \A t \in Slots :
          /\ pc[t] = "publish" /\ newId[t] # ""
               => \E k \in 1..Len(executions[Head(rest[t]).ID]) :
                     executions[Head(rest[t]).ID][k] /\ newId[t] = ExecId(Head(rest[t]).ID, k)
          /\ pc[t] = "update"
               => \E k \in 1..Len(published[Head(rest[t]).ID]) :
                     published[Head(rest[t]).ID][k].msg.analysis_id = newId[t]

\* a slot has created and published and is about to update, and another
\* execution of the same analysis was created whose message is not published
C10_Witness ==
    \E t \in Slots :
        /\ pc[t] = "update"
        /\ updates[Head(rest[t]).ID] = 0
        /\ Len(published[Head(rest[t]).ID]) = 1
        /\ Returned(Head(rest[t]).ID) = 2

\* s is what q was, or q with one more element at its end
GrowsByAtMostOne(q, s) == s = q \/ (Len(s) = Len(q) + 1 /\ SubSeq(s, 1, Len(q)) = q)

\* C11: one processAnalysis makes at most one creation call, one publish and
\* one update: the step that made the call either moves on to the next call
\* for the same row or ends the invocation, never stays at or goes back to a
\* call already made; and what a call did stays done when a later call fails:
\* executions and messages are only ever added, one at a time.
C11_AtMostOnceNoRollback ==
    [][/\ \A i \in ItemIds :
             /\ GrowsByAtMostOne(executions[i], executions'[i])
             /\ GrowsByAtMostOne(published[i], published'[i])
       /\ \A t \in Slots, resp \in Responses :
             createAnalysisExecution(t, resp)
             => /\ (pc'[t] = "publish" /\ rest'[t] = rest[t]) \/ Ends(t)
                /\ published' = published
                /\ updates' = updates
       /\ \A t \in Slots, sendOk \in BOOLEAN :
             sendAnalysisMessage(t, sendOk)
             => /\ (pc'[t] = "update" /\ rest'[t] = rest[t]) \/ Ends(t)
                /\ executions' = executions
                /\ updates' = updates
       /\ \A t \in Slots, execOk \in BOOLEAN :
             updateSchedule(t, execOk)
             => /\ Ends(t)
                /\ executions' = executions
                /\ published' = published
                /\ updates'[Head(rest[t]).ID] = updates[Head(rest[t]).ID] + 1]_vars

\* one invocation for A made each call once and its update failed: the
\* execution and the message are still there, the row is as it was, and the
\* job is over
C11_Witness ==
    /\ ticks = 1
    /\ executions["A"] = <<TRUE>>
    /\ Len(published["A"]) = 1
    /\ updates["A"] = 1
    /\ store["A"] = InitRow("A")
    /\ \A t \in Slots : pc[t] = "idle"

\* C12: a firing of the cron entry does not wait for an earlier job that is
\* still running, and its select does not leave out what that job is
\* processing: a row the running job has in hand and that is still due in the
\* table is returned to the new job as well.
C12_SelectReturnsRowsInFlight ==
    [][\A t \in Slots, order \in AllOrders :
          processDueAnalyses(t, TRUE, order)
          => \A u \in Slots \ {t} :
                (Busy(u) /\ Head(rest[u]).ID \in DueIds(store, now))
                => /\ pc'[t] = "create"
                   /\ \E k \in 1..Len(rest'[t]) : rest'[t][k] = store[Head(rest[u]).ID]]_vars

\* two jobs overlap at the start, nothing has failed and nothing was edited:
\* both selected A for the same next run, both created an execution and
\* published its message, neither has written the table yet
C12_Witness ==
    /\ now = 0
    /\ ticks = 2
    /\ store = [i \in ItemIds |-> InitRow(i)]
    /\ \A t \in Slots : pc[t] = "update" /\ rest[t] = <<InitRow("A")>>
    /\ executions["A"] = <<TRUE, TRUE>>
    /\ updates["A"] = 0
    /\ Len(published["A"]) = 2
    /\ published["A"][1].due = published["A"][2].due
    /\ published["A"][1].msg.analysis_id # published["A"][2].msg.analysis_id
    /\ published["A"][1].msg.analysis_id # ""
    /\ published["A"][2].msg.analysis_id # ""

\* C13: a job whose select fails ends there: it hands no row to
\* processAnalysis, so nothing is created, published or written and no slot
\* gets anything to do; and a select that succeeds after selects have failed
\* returns exactly the rows that are due in the table at that moment.
C13_FailedSelectEndsTheJob ==
    [][\A t \in Slots, order \in AllOrders :
          /\ processDueAnalyses(t, FALSE, order)
             => /\ pc' = pc /\ pc'[t] = "idle"
                /\ rest' = rest
                /\ newId' = newId
                /\ executions' = executions
                /\ published' = published
                /\ store' = store
                /\ updates' = updates
                /\ scanErrors' = scanErrors + 1
          /\ (processDueAnalyses(t, TRUE, order) /\ scanErrors > 0)
             => {rest'[t][k] : k \in 1..Len(rest'[t])}
                   = {store[i] : i \in DueIds(store, now)}]_vars

\* the only firing so far had its select fail: A is due, and no job is
\* running, no execution exists, nothing is published, no row is written
C13_Witness ==
    /\ ticks = 1
    /\ scanErrors = 1
    /\ "A" \in DueIds(store, now)
    /\ \A t \in Slots : pc[t] = "idle" /\ rest[t] = << >>
    /\ \A i \in ItemIds :
          executions[i] = << >> /\ published[i] = << >> /\ updates[i] = 0
    /\ store = [i \in ItemIds |-> InitRow(i)]

\* C14: a processAnalysis whose creation call or publish fails ends without
\* writing the table, so a row that still is what the select returned is due
\* at that and at every later time and the select of the next job returns it;
\* that job starts the row at the creation call with no execution id in hand,
\* and the id the call then gets is one no published message carries.
C14_FailureIsRetriedFromTheCreationCall ==
    [][\A t \in Slots :
          /\ (\/ \E resp \in Responses : ~CreateOk(resp) /\ createAnalysisExecution(t, resp)
              \/ sendAnalysisMessage(t, FALSE))
             => LET row == Head(rest[t])
                IN  /\ Ends(t)
                    /\ store' = store
                    /\ store'[row.ID] = row
                       => \A q \in LaterTimes(now') : row.ID \in DueIds(store', q)
          /\ (pc[t] = "idle" /\ rest'[t] # << >>)
             => pc'[t] = "create" /\ newId'[t] = ""
          /\ createAnalysisExecution(t, "created")
             => LET id == Head(rest[t]).ID
                IN  /\ newId'[t] = ExecId(id, Len(executions[id]) + 1)
                    /\ \A k \in 1..Len(published[id]) :
                          published[id][k].msg.analysis_id # newId'[t]]_vars

\* the first job created an execution for A and its publish failed; the next
\* job, in the same slot, selected A for the same next run, made a second
\* creation call and published the message of the second execution: the
\* first execution has no message
C14_Witness ==
    /\ ticks = 2
    /\ scanErrors = 0
    /\ executions["A"] = <<TRUE, TRUE>>
    /\ pc[1] = "update" /\ newId[1] = ExecId("A", 2) /\ pc[2] = "idle"
    /\ Len(published["A"]) = 1
    /\ published["A"][1].msg.analysis_id = ExecId("A", 2)
    /\ published["A"][1].due = InitRow("A").NextScheduledRun
    /\ updates["A"] = 0

\* C15: no failure stops the loop.  When the creation call, the publish or
\* the update of a row fails, the job goes on with the next row of its
\* select, in the order of the select, until none is left; and after that
\* step, as after a select that failed, the service still runs and the cron
\* entry can fire in whatever goroutine slot is free.
C15_FailuresDoNotStopTheLoop ==
    [][\A t \in Slots :
          (\/ \E resp \in Responses : createAnalysisExecution(t, resp) /\ ~CreateOk(resp)
           \/ sendAnalysisMessage(t, FALSE)
           \/ updateSchedule(t, FALSE)
           \/ processDueAnalyses(t, FALSE, << >>))
          => /\ Busy(t)
                => IF Len(rest[t]) > 1
                   THEN pc'[t] = "create" /\ rest'[t] = Tail(rest[t])
                        /\ Head(rest'[t]) = rest[t][2]
                   ELSE pc'[t] = "idle" /\ rest'[t] = << >>
             /\ Started'
             /\ (\E u \in Slots : ~Busy(u)') => \E u \in Slots : FreeSlot(u)']_vars

\* the only job so far selected A and then B; the creation call for A failed
\* (the body of the 201 did not decode) and the job is now at B
C15_Witness ==
    /\ ticks = 1
    /\ executions["A"] = <<FALSE>>
    /\ published["A"] = << >>
    /\ pc[1] \in {"publish", "update"}
    /\ Len(rest[1]) = 1
    /\ Head(rest[1]).ID = "B"

\* C16: a job processes the rows of its select one after another.  What a
\* step of a running job creates, publishes or writes is for the row the job
\* is at and for no other; and the job leaves that row for the next one only
\* in the step that ends its processAnalysis: the creation call that fails,
\* the publish that fails, or the update.
C16_OneRowAtATimeWithinAJob ==
    [][\A t \in Slots :
          (Busy(t) /\ (pc'[t] # pc[t] \/ rest'[t] # rest[t]))
          => LET id == Head(rest[t]).ID
             IN  /\ \A i \in ItemIds \ {id} :
                       /\ executions'[i] = executions[i]
                       /\ published'[i] = published[i]
                       /\ updates'[i] = updates[i]
                       /\ store'[i] = store[i]
                 /\ rest'[t] # rest[t]
                    => /\ rest'[t] = Tail(rest[t])
                       /\ newId'[t] = ""
                       /\ \/ pc[t] = "update" /\ updates'[id] = updates[id] + 1
                          \/ pc[t] = "publish" /\ published' = published
                          \/ /\ pc[t] = "create"
                             /\ executions'[id] \in {executions[id],
                                                     Append(executions[id], FALSE)}]_vars

\* the only job so far selected A and then B: A has its execution, its
\* message and its update, and only now the job is at the creation call of B,
\* for which nothing has been done
C16_Witness ==
    /\ ticks = 1
    /\ pc[1] = "create"
    /\ Len(rest[1]) = 1
    /\ Head(rest[1]).ID = "B"
    /\ executions["A"] = <<TRUE>> /\ Len(published["A"]) = 1 /\ updates["A"] = 1
    /\ executions["B"] = << >> /\ published["B"] = << >> /\ updates["B"] = 0

\* C17: when CreateSchedulerService returns no error the service is there
\* with its ServiceBase, its cron and a non-empty apiURL, and this holds
\* before the cron entry fires for the first time; when it returns an error
\* the service is nil, Start is never called and no job ever runs.
C17_ServiceIsInitialisedOrNil ==
    /\ err = Nil
       => /\ service # Nil
          /\ Val(service).ServiceBase # Nil
          /\ Val(service).cron # Nil
          /\ Val(service).apiURL # ""
    /\ err # Nil
       => /\ service = Nil
          /\ ticks = 0
          /\ \A t \in Slots : ~Busy(t)
    /\ ticks > 0 => err = Nil /\ service # Nil

\* the service was created without error and its cron entry has fired
C17_Witness ==
    /\ err = Nil
    /\ service = Some([ServiceBase |-> Some("ServiceBase"), cron |-> Some("cron"),
                       apiURL |-> "http://api:3000"])
    /\ ticks > 0
    /\ \E t \in Slots : Busy(t)

\* the slots whose call has not returned and never will
Stuck == {t \in Slots : pc[t] = "stuck"}

\* C18: a call that never returns holds up its own job only.  However many
\* times the cron entry has fired when a job is stuck, it fires again, in
\* another goroutine; the select of that firing returns every row that is
\* due, those of the list of the stuck job included; and the stuck job itself
\* does nothing more, so it writes into no row.
C18_HangingCallDoesNotStallTheLoop ==
    /\ \A k \in 0..(MaxTicks - 1) : (Stuck # {} /\ ticks = k) ~> (ticks > k)
    /\ [][/\ \A t \in Stuck : pc'[t] = "stuck" /\ rest'[t] = rest[t]
          /\ \A u \in Slots :
                (Stuck # {} /\ processDueAnalyses(u, TRUE, << >>))
                => DueIds(store, now) = {}
          /\ \A u \in Slots :
                (Stuck # {} /\ pc[u] = "idle" /\ pc'[u] = "create")
                => {rest'[u][k] : k \in 1..Len(rest'[u])}
                      = {store[i] : i \in DueIds(store, now)}]_vars

\* the first job selected A and B and its call for the first of them never
\* returned; a later job, in the other goroutine, has created the execution of
\* the second row of that list, published its message and set its next run
C18_Witness ==
    /\ pc[1] = "stuck"
    /\ Len(rest[1]) = 2
    /\ LET id == rest[1][2].ID
       IN  /\ Len(published[id]) = 1
           /\ published[id][1].msg.analysis_id = ExecId(id, 1)
           /\ updates[id] = 1
           /\ store[id].LastScheduledRun = Some(now)
           /\ store[id].NextScheduledRun = Some(calculateNextRun(store[id].ScheduleType, now))
           /\ store[id] # rest[1][2]
    /\ store[Head(rest[1]).ID] = Head(rest[1])

\* C19: createAnalysisExecution returns no error only for a 201 whose body
\* carries the id of the new execution, so every message on the queue has a
\* non-empty analysis_id, and it is the id of an execution the API created
\* for that analysis.
C19_EveryMessageCarriesACreatedId ==
    \A i \in ItemIds : \A k \in 1..Len(published[i]) :
        /\ published[i][k].msg.analysis_id # ""
        /\ \E n \in 1..Len(executions[i]) :
              published[i][k].msg.analysis_id = ExecId(i, n)

\* C20: the service writes the table in the update of processAnalysis and
\* nowhere else.  In a step of the service a row changes only if the step is
\* the update of a job that is at that row; then last_scheduled_run and
\* next_scheduled_run of that row are all that changes, and no other row
\* changes.  No step adds or removes a row.
C20_OnlyTheUpdateWritesAndOnlyTwoColumns ==
    [][/\ DOMAIN store' = DOMAIN store
       /\ \A i \in ItemIds : store'[i].ID = i
       /\ (ticks' # ticks \/ \E t \in Slots : pc'[t] # pc[t] \/ rest'[t] # rest[t])
          => \A i \in ItemIds :
                store'[i] # store[i]
                => /\ \E t \in Slots :
                         /\ pc[t] = "update"
                         /\ rest'[t] # rest[t]
                         /\ Head(rest[t]).ID = i
                   /\ store'[i] = [store[i] EXCEPT
                                      !.LastScheduledRun = Some(now),
                                      !.NextScheduledRun = store'[i].NextScheduledRun]
                   /\ \A j \in ItemIds \ {i} : store'[j] = store[j]]_vars

\* at one hour A has been processed and B has not: A's row differs from the
\* initial one in its last and next run only, B's row is the initial one
C20_Witness ==
    /\ now = 1 * Hour
    /\ updates = [i \in ItemIds |-> IF i = "A" THEN 1 ELSE 0]
    /\ store["A"] = [InitRow("A") EXCEPT !.LastScheduledRun = Some(1 * Hour),
                                         !.NextScheduledRun = Some(25 * Hour)]
    /\ store["B"] = InitRow("B")

\* C21: the message a processAnalysis publishes has as analysis_id what the
\* creation call of that same processAnalysis returned, which is never the id
\* of the scheduled analysis, and as project_id, organization_id,
\* integration_id (nil stays nil) and config the values of the row the select
\* returned; exactly that one message is added to the queue.
C21_MessageIsSnapshotPlusNewExecutionId ==
    [][\A t \in Slots :
          /\ (pc[t] = "create" /\ pc'[t] = "publish")
             => newId'[t] \in {"", ExecId(Head(rest[t]).ID,
                                          Len(executions'[Head(rest[t]).ID]))}
          /\ (pc[t] = "publish" /\ pc'[t] = "publish") => newId'[t] = newId[t]
          /\ (pc[t] = "publish" /\ pc'[t] = "update")
             => LET row == Head(rest[t])
                    sent == published'[row.ID][Len(published'[row.ID])].msg
                IN  /\ Len(published'[row.ID]) = Len(published[row.ID]) + 1
                    /\ DOMAIN sent = {"analysis_id", "project_id", "integration_id",
                                      "organization_id", "config"}
                    /\ sent.analysis_id = newId[t]
                    /\ sent.analysis_id # row.ID
                    /\ sent.project_id = row.ProjectID
                    /\ sent.organization_id = row.OrganizationID
                    /\ sent.integration_id = row.IntegrationID
                    /\ sent.config = row.Config]_vars

\* the message published for B, an analysis without integration: the id of
\* the first execution of B, B's project, organization and config, and a nil
\* integration_id
C21_Witness ==
    /\ Len(published["B"]) = 1
    /\ published["B"][1].msg = [analysis_id |-> ExecId("B", 1),
                                project_id |-> "proj-B",
                                integration_id |-> Nil,
                                organization_id |-> "org-B",
                                config |-> [branch |-> "main", item |-> "B"]]

\* C22: the next run a successful update writes is the time of the update
\* plus the interval of the schedule type, whatever next run the row had.
\* So a row is not due any more right after its update, however many
\* intervals it was overdue; and when nobody else has written the row since
\* the select, its next run moves forward by the interval plus the whole
\* delay between the old next run and the update.
C22_NextRunCountsFromTheUpdateOnly ==
    [][\A t \in Slots :
          updateSchedule(t, TRUE)
          => LET row == Head(rest[t])
                 new == store'[row.ID]
             IN  /\ new.NextScheduledRun = Some(now + IntervalOf(row.ScheduleType))
                 /\ DueWhere(new, now) # "TRUE"
                 /\ store[row.ID] = row
                    => /\ Val(new.NextScheduledRun)
                            >= Val(row.NextScheduledRun) + IntervalOf(row.ScheduleType)
                       /\ Val(new.NextScheduledRun)
                            - (Val(row.NextScheduledRun) + IntervalOf(row.ScheduleType))
                          = now - Val(row.NextScheduledRun)]_vars

\* the daily analysis, due since the start, is processed a week late: one
\* message, and its next run is a day after the update, eight days after
\* the missed one; it is not due
C22_Witness ==
    /\ now = 7 * 24 * Hour
    /\ Len(published["A"]) = 1
    /\ published["A"][1].due = Some(0)
    /\ updates["A"] = 1
    /\ store["A"].LastScheduledRun = Some(7 * 24 * Hour)
    /\ store["A"].NextScheduledRun = Some(8 * 24 * Hour)
    /\ "A" \notin DueIds(store, now)

\* C23: with one job at a time, no failing call and no other writer, an
\* analysis gets one message per time it becomes due.  When a message is
\* published for it, no earlier message is for the same next run, every
\* earlier message has been followed by its update, and if there is an
\* earlier message, the row was rescheduled after it and at least the
\* interval of the schedule type has passed since, so that the next runs of
\* two consecutive messages are at least an interval apart.
C23_OneMessagePerOccurrenceWhenSequential ==
    [][\A t \in Slots :
          (pc[t] = "publish" /\ pc'[t] = "update")
          => LET row == Head(rest[t])
                 n == Len(published[row.ID])
                 d == IntervalOf(row.ScheduleType)
             IN  /\ Len(published'[row.ID]) = n + 1
                 /\ updates[row.ID] = n
                 /\ \A k \in 1..n : published[row.ID][k].due # row.NextScheduledRun
                 /\ n > 0
                    => /\ row.LastScheduledRun # Nil
                       /\ now >= Val(row.LastScheduledRun) + d
                       /\ Val(row.NextScheduledRun) >= Val(published[row.ID][n].due) + d]_vars

\* the daily analysis was triggered at the start for its next run at 0 and,
\* a week later, for its next run at 24h: two messages, two updates
C23_Witness ==
    /\ now = 7 * 24 * Hour
    /\ Len(published["A"]) = 2
    /\ published["A"][1].due = Some(0)
    /\ published["A"][2].due = Some(24 * Hour)
    /\ updates["A"] = 2
    /\ ticks = 2

\* analysis i has a message on the queue and a next run after now
Triggered(i) ==
    /\ published[i] # << >>
    /\ store[i].NextScheduledRun # Nil
    /\ Val(store[i].NextScheduledRun) > now

\* C24: when the cron keeps firing, every call returns and the calls succeed
\* in the end, an analysis that is due gets its message and its next run
\* moved past now: failed attempts are made again by a later firing, and no
\* attempt moves the next run without having published.
C24_DueAnalysisIsEventuallyTriggered ==
    \A i \in ItemIds : (i \in DueIds(store, now)) ~> Triggered(i)

\* A was due, the first attempt failed after the API had created an
\* execution, and a later firing has published the message of a second
\* execution and moved the next run
C24_Witness ==
    /\ executions["A"] = <<FALSE, TRUE>>
    /\ ticks = 2
    /\ Len(published["A"]) = 1
    /\ published["A"][1].msg.analysis_id = ExecId("A", 2)
    /\ Triggered("A")
    /\ "A" \notin DueIds(store, now)

\* the job in slot t is done with the call it was making for its current row
LeavesCall(t) == pc'[t] # pc[t] \/ rest'[t] = Tail(rest[t])

\* C25: one firing handles each analysis at most once. The rows of a select
\* have distinct ids; a job only drops rows, from the front of its list; the
\* current row only goes forward from the creation call to the publish to the
\* update, so that no call is made twice for it; and every creation call,
\* every message and every update is the single call that a job makes at
\* that stage for its current row and then leaves, whether it succeeded or not.
C25_OneFiringHandlesEachAnalysisOnce ==
    [][/\ \A t \in Slots :
             /\ rest[t] = << >> =>
                   \A a, b \in 1..Len(rest'[t]) : rest'[t][a].ID = rest'[t][b].ID => a = b
             /\ rest[t] # << >> => rest'[t] \in {rest[t], Tail(rest[t])}
             /\ (rest[t] # << >> /\ rest'[t] = rest[t] /\ pc'[t] # pc[t]) =>
                   <<pc[t], pc'[t]>> \in {<<"create", "publish">>, <<"publish", "update">>}
       /\ \A i \in ItemIds :
             /\ executions'[i] # executions[i] =>
                   /\ Len(executions'[i]) = Len(executions[i]) + 1
                   /\ \E t \in Slots : /\ pc[t] = "create"
                                       /\ Head(rest[t]).ID = i
                                       /\ LeavesCall(t)
             /\ published'[i] # published[i] =>
                   /\ Len(published'[i]) = Len(published[i]) + 1
                   /\ \E t \in Slots : /\ pc[t] = "publish"
                                       /\ Head(rest[t]).ID = i
                                       /\ LeavesCall(t)
             /\ updates'[i] # updates[i] =>
                   /\ updates'[i] = updates[i] + 1
                   /\ \E t \in Slots : /\ pc[t] = "update"
                                       /\ Head(rest[t]).ID = i
                                       /\ rest'[t] = Tail(rest[t])
      ]_vars

\* the first firing selected A and B; the creation call for A failed after
\* the API had created the execution, and the job has gone on to B without
\* a second call for A
C25_Witness ==
    /\ ticks = 1
    /\ executions["A"] = <<FALSE>>
    /\ published["A"] = << >>
    /\ updates["A"] = 0
    /\ pc[1] = "create"
    /\ Len(rest[1]) = 1
    /\ Head(rest[1]).ID = "B"

\* row passes the three conditions of the select at time `at`
PassesFilter(row, at) ==
    /\ row.IsActive = TRUE
    /\ row.ScheduleType \in {Some("daily"), Some("weekly")}
    /\ row.NextScheduledRun # Nil
    /\ Val(row.NextScheduledRun) <= at

\* C26: a job works on the rows its own select returned and on nothing else.
\* The rows entering a job are rows of the table that are active, daily or
\* weekly, and due at the time of the select; the list is never read again,
\* it only loses rows from the front; so the row a job is processing is
\* always such a row, calculateNextRun is called with "daily" or "weekly" and
\* never takes its default branch, and every update written puts the next run
\* exactly 24 hours (daily) or 168 hours (weekly) after the last run, by the
\* schedule type of the row as it was selected.
C26_JobsRunOnTheirSelectOnly ==
    [][\A t \in Slots :
          /\ (rest[t] = << >> /\ rest'[t] # << >>) =>
                \A k \in 1..Len(rest'[t]) :
                   /\ rest'[t][k] = store[rest'[t][k].ID]
                   /\ PassesFilter(rest'[t][k], now)
          /\ rest[t] # << >> =>
                /\ PassesFilter(Head(rest[t]), now)
                /\ rest'[t] \in {rest[t], Tail(rest[t])}
          /\ (pc[t] = "update" /\ rest'[t] # rest[t]) =>
                /\ Val(Head(rest[t]).ScheduleType) \in KnownTypes
                /\ store'[Head(rest[t]).ID] # store[Head(rest[t]).ID] =>
                      /\ store'[Head(rest[t]).ID].LastScheduledRun = Some(now)
                      /\ store'[Head(rest[t]).ID].NextScheduledRun =
                            Some(now + IF Head(rest[t]).ScheduleType = Some("daily")
                                       THEN 24 * Hour ELSE 7 * 24 * Hour)
      ]_vars

\* a table with a weekly analysis and a monthly one, both active and due: the
\* weekly one was selected, processed and moved by 168 hours, the monthly one
\* was never in a job
C26_Witness ==
    /\ store["A"].ScheduleType = Some("weekly")
    /\ store["A"].LastScheduledRun = Some(now)
    /\ store["A"].NextScheduledRun = Some(now + 7 * 24 * Hour)
    /\ updates["A"] = 1
    /\ store["B"].ScheduleType = Some("monthly")
    /\ store["B"].IsActive
    /\ store["B"].NextScheduledRun = Some(0)
    /\ executions["B"] = << >>
    /\ updates["B"] = 0
    /\ ticks = MaxTicks
    /\ \A t \in Slots : pc[t] = "idle"

====
